---- MODULE Spec2Model ----
(***************************************************************************)
(* Model of pkg/model/dbAudit.go: the DBAudit audit-trail datastore.       *)
(* State: the influx time-series store, the redis hash maps, the shared    *)
(* batch of DBAudit (influxBatchPoints, influxPointsInBatch) and, for each *)
(* caller, its position inside a tree write.                               *)
(***************************************************************************)
EXTENDS Integers, Sequences, FiniteSets, Bags, TLC

\* ------------------------------------------------------------------ bounds
\* total number of calls started over a run
MaxCalls == 2
\* the clock (UnixNano) runs from 1 to MaxTime
MaxTime == 2
\* flush threshold of addAuditPoint (scaled down; set outside dbAudit.go)
influxMaxPointsInBatch == 2

\* ------------------------------------------------------------------ constants
influxDBStorageTable == "storage"
influxDBMerkleTable == "merkle"

\* ------------------------------------------------------------------ inputs
Writers == {"w1", "w2"}
\* a topic so long that measurement+tags exceed influx's maximal key length:
\* clientInfluxdb.NewPoint returns an error for it
LongTopic == "L"
Topics == {"a", LongTopic}
Levels == {"0", "1", "2"}
IDs == {7, 12}
ChildA == <<"3">>
ChildB == <<"1", "0">>
ChildLists == {<<ChildA>>, <<ChildA, ChildB>>}
\* leaves of a tree handed to SetStorageTreeInflux: (Timestamp, payload)
Leaf(t, d) == [Timestamp |-> t, data |-> d]
\* the last tree holds a timestamp later than every time it can be sealed at
Trees ==
    {<<>>, <<Leaf(1, "p")>>, <<Leaf(1, "q")>>, <<Leaf(1, "p"), Leaf(2, "q")>>,
     <<Leaf(MaxTime + 1, "p")>>}

\* the arguments a caller draws from: all of them for a single caller, a few of them
\* for concurrent callers, whose interleavings are what is explored
AllInputs ==
    [trees |-> Trees, topics |-> Topics, levels |-> Levels, ids |-> IDs,
     children |-> ChildLists, oks |-> BOOLEAN]
RaceInputs ==
    [trees |-> {<<Leaf(1, "p")>>, <<Leaf(1, "q")>>}, topics |-> {"a"}, levels |-> {"2"},
     ids |-> {7}, children |-> {<<ChildA>>}, oks |-> BOOLEAN]
\* the calls that fill the stores a reader then queries: both stores accept every write
ReadTopics == {"a", "b"}
ReadInputs ==
    [trees |-> {<<Leaf(1, "p")>>, <<Leaf(1, "p"), Leaf(2, "q")>>}, topics |-> ReadTopics,
     levels |-> {"1", "2"}, ids |-> IDs, children |-> {<<ChildA>>, <<ChildB>>},
     oks |-> {TRUE}]

NoPoint == [table |-> "none"]
NoCall == [kind |-> "none"]
NoRead == [op |-> "none"]
Nil == "nil"

\* ------------------------------------------------------------------ strconv
Digits == <<"0", "1", "2", "3", "4", "5", "6", "7", "8", "9">>

RECURSIVE FormatUint(_)
FormatUint(n) ==
    IF n < 10 THEN <<Digits[n + 1]>>
    ELSE FormatUint(n \div 10) \o <<Digits[(n % 10) + 1]>>

\* strconv.FormatInt(n, 10) / strconv.Itoa(n): a decimal string (sequence of characters)
FormatInt(n) == IF n < 0 THEN <<"-">> \o FormatUint(0 - n) ELSE FormatUint(n)

DigitVal(c) == CHOOSE d \in 0..9 : Digits[d + 1] = c
IsDigit(c) == \E d \in 0..9 : Digits[d + 1] = c

RECURSIVE ParseUint(_)
ParseUint(s) ==
    IF Len(s) = 0 THEN 0
    ELSE 10 * ParseUint(SubSeq(s, 1, Len(s) - 1)) + DigitVal(s[Len(s)])

\* strconv.ParseInt(s, 10, 64): [ok, val]
ParseInt(s) ==
    LET signed == Len(s) > 0 /\ s[1] \in {"-", "+"}
        body == IF signed THEN Tail(s) ELSE s
    IN  IF Len(body) = 0 \/ \E i \in 1..Len(body) : ~IsDigit(body[i])
        THEN [ok |-> FALSE, val |-> 0]
        ELSE [ok |-> TRUE,
              val |-> IF signed /\ s[1] = "-" THEN 0 - ParseUint(body) ELSE ParseUint(body)]

\* ------------------------------------------------------------------ state
VARIABLES
    influx,               \* rows of the time-series store
    redis,                \* entries (key, field, val) of the redis hashes
    influxBatchPoints,    \* DBAudit.influxBatchPoints: the points of the current batch
    influxPointsInBatch,  \* DBAudit.influxPointsInBatch
    now,                  \* time.Now().UnixNano()
    seen,                 \* per caller: the time its last tree write read
    pc,                   \* per caller: position inside its call ("idle" between calls)
    call,                 \* per caller: its current or last call (arguments, point)
    err,                  \* per caller: result of its last influxClient.Write
    ret,                  \* per caller: the error returned by its last call
    ncalls,               \* number of calls started
    accepted,             \* bag of the points carried by writes the store accepted
    everFailed,           \* some influxClient.Write has been rejected
    rd                    \* the last read operation: its arguments and what it returned

vars == <<influx, redis, influxBatchPoints, influxPointsInBatch, now, seen, pc, call, err,
          ret, ncalls, accepted, everFailed, rd>>

\* ------------------------------------------------------------------ redis
\* mutant: one key for all topics
getKeyPoolIDs_NoTopic(topic) == "HashedPoolsMap_"

getKeyPoolIDs(topic) == "HashedPoolsMap_" \o topic

\* redisClient.HSet(key, poolMap): every field of poolMap is set to its value
HSet(r, key, fields, val) ==
    {e \in r : ~(e.key = key /\ e.field \in fields)}
        \cup {[key |-> key, field |-> f, val |-> val] : f \in fields}

Range(s) == {s[i] : i \in 1..Len(s)}

\* mutant: the children are entered under the key of every topic
SetPoolID_EveryTopic(r, topic, children, ID, ok) ==
    IF ok /\ children # <<>>
    THEN {e \in r : e.field \notin Range(children)}
             \cup {[key |-> getKeyPoolIDs(t), field |-> f, val |-> FormatInt(ID)] :
                      t \in Topics, f \in Range(children)}
    ELSE r

\* SetPoolID: the redis state after the call; ok is the outcome of HSet
SetPoolID(r, topic, children, ID, ok) ==
    IF ok /\ children # <<>>
    THEN HSet(r, getKeyPoolIDs(topic), Range(children), FormatInt(ID))
    ELSE r

\* GetPoolsParentID(id, topic) on redis state r: [val, err]
GetPoolsParentID(r, id, topic) ==
    LET hit == {e \in r : e.key = getKeyPoolIDs(topic) /\ e.field = id}
    IN  IF hit = {} THEN [val |-> -2, err |-> "no redis entry"]
        ELSE LET parsed == ParseInt((CHOOSE e \in hit : TRUE).val)
             IN  IF parsed.ok THEN [val |-> parsed.val, err |-> Nil]
                 ELSE [val |-> -2, err |-> "parse"]

\* ------------------------------------------------------------------ influx
\* a point without the identity of the *Point object: what the store keeps
Row(pt) == [table |-> pt.table, tags |-> pt.tags, fields |-> pt.fields, time |-> pt.time]
SameSeries(a, b) == a.table = b.table /\ a.tags = b.tags /\ a.time = b.time

\* influxClient.Write(batch) accepted: the points are applied in order, a point
\* replaces the row with its measurement, tag set and time
RECURSIVE WritePoints(_, _)
WritePoints(rows, batch) ==
    IF batch = <<>> THEN rows
    ELSE WritePoints({r \in rows : ~SameSeries(r, Row(Head(batch)))} \cup {Row(Head(batch))},
                     Tail(batch))

\* clientInfluxdb.NewPoint fails when the series key is too long
NewPointOK(topic) == topic # LongTopic

createAuditBatchInflux == <<>>

\* mutant: a rejected write leaves the batch in place
BatchAfterWrite_Keep(batch, e) == batch
\* mutant: every write, accepted or rejected, ends with a new batch
BatchAfterWrite_AlwaysNew(batch, e) == createAuditBatchInflux

\* WriteAuditBatchInflux after influxClient.Write returned e: the batch
BatchAfterWrite(batch, e) == IF e # Nil THEN createAuditBatchInflux ELSE batch
\* WriteAuditBatchInflux after influxClient.Write returned e: the counter
CounterAfterWrite(n, e) == IF e # Nil THEN n ELSE 0

\* ------------------------------------------------------------------ trees
\* time.Time{} lies before every timestamp
ZeroTime == -1

RECURSIVE FirstDate(_, _)
FirstDate(tree, first) ==
    IF tree = <<>> THEN first
    ELSE FirstDate(Tail(tree), IF Head(tree).Timestamp < first THEN Head(tree).Timestamp ELSE first)

RECURSIVE LastDate(_, _)
LastDate(tree, last) ==
    IF tree = <<>> THEN last
    ELSE LastDate(Tail(tree), IF last < Head(tree).Timestamp THEN Head(tree).Timestamp ELSE last)

\* mutant: the leaves are numbered from 1
BucketsWithID_FromOne(tree, t) ==
    [i \in 1..Len(tree) |->
        [ID |-> FormatInt(t) \o <<".">> \o FormatInt(i),
         Timestamp |-> tree[i].Timestamp, data |-> tree[i].data]]

\* the leaves with their identifiers "<influxTimeID>.<i>"
BucketsWithID(tree, t) ==
    [i \in 1..Len(tree) |->
        [ID |-> FormatInt(t) \o <<".">> \o FormatInt(i - 1),
         Timestamp |-> tree[i].Timestamp, data |-> tree[i].data]]

StoragePoint(uid, tree, topic, t) ==
    [uid |-> uid, table |-> influxDBStorageTable,
     tags |-> [topic |-> topic,
               firstDate |-> FormatInt(FirstDate(tree, t)),
               lastDate |-> FormatInt(LastDate(tree, ZeroTime))],
     fields |-> [value |-> BucketsWithID(tree, t)],
     time |-> t]

\* the tree handed to SetDailyTreeInflux is the one its caller built over the children
DailyPoint(uid, ID, topic, level, children, lastTimestamp, t) ==
    [uid |-> uid, table |-> influxDBMerkleTable,
     tags |-> [topic |-> topic, level |-> level, id |-> FormatInt(ID)],
     fields |-> [value |-> children, children |-> children,
                 lastTimestamp |-> FormatInt(lastTimestamp)],
     time |-> t]

\* ------------------------------------------------------------------ time
RECURSIVE TrimZeros(_)
TrimZeros(s) ==
    IF s # <<>> /\ s[Len(s)] = "0" THEN TrimZeros(SubSeq(s, 1, Len(s) - 1)) ELSE s

RECURSIVE PadLeft(_, _)
PadLeft(s, n) == IF Len(s) >= n THEN s ELSE PadLeft(<<"0">> \o s, n)

RECURSIVE PadRight(_, _)
PadRight(s, n) == IF Len(s) >= n THEN s ELSE PadRight(s \o <<"0">>, n)

\* the fractional second of a time of t nanoseconds (t below one second): up to nine
\* digits, trailing zeros dropped, nothing at all for a whole second
Frac(t) ==
    LET d == TrimZeros(PadLeft(FormatUint(t), 9))
    IN  IF d = <<>> THEN <<>> ELSE <<".">> \o d

\* the time column of a query result: RFC3339 with nanoseconds, UTC
FormatRFC3339Nano(t) == <<"1970-01-01T00:00:00">> \o Frac(t) \o <<"Z">>

\* time.Parse(time.RFC3339Nano, s) with its error dropped: the zero time on an error
ParseRFC3339Nano(s) ==
    IF Len(s) >= 2 /\ s[1] = "1970-01-01T00:00:00" /\ s[Len(s)] = "Z"
    THEN LET mid == SubSeq(s, 2, Len(s) - 1)
         IN  IF mid = <<>> THEN 0
             ELSE IF /\ mid[1] = "." /\ Len(mid) \in 2..10
                     /\ \A i \in 2..Len(mid) : IsDigit(mid[i])
                  THEN ParseUint(PadRight(Tail(mid), 9))
                  ELSE ZeroTime
    ELSE ZeroTime

\* time.Time.String() of a time parsed from a "Z" timestamp
TimeString(t) ==
    IF t = ZeroTime THEN <<"0001-01-01 00:00:00 +0000 UTC">>
    ELSE <<"1970-01-01 00:00:00">> \o Frac(t) \o <<" +0000 UTC">>

\* the days of time.Now().AddDate(0, 0, -10) in GetLastTimestamp
LookbackDays == 10
\* mutant: the days are taken off instead of added
AddDate_Backwards(t, days) == t - days
\* t.AddDate(0, 0, days), the clock read in days
AddDate(t, days) == t + days

\* ------------------------------------------------------------------ queries
\* the rows of a measurement whose tags have the given values
Select(rows, table, tags) ==
    {r \in rows : r.table = table /\ \A k \in DOMAIN tags : r.tags[k] = tags[k]}

\* mutant: a rejected query is answered like one that matched nothing
queryAuditDB_Swallow(matching, qok) == [res |-> IF qok THEN matching ELSE {}, err |-> Nil]

\* queryAuditDB: the result of the query, or the error of the client or of the response
queryAuditDB(matching, qok) ==
    IF qok THEN [res |-> matching, err |-> Nil] ELSE [res |-> {}, err |-> "query"]

\* mutant: time >= timeLower
After_Inclusive(t, lower) == t >= lower

\* "time > %d" with timeLower.UnixNano()
After(t, lower) == t > lower

\* mutant: the newest row instead of the oldest
OrderAscLimit1_Newest(rows) == {r \in rows : \A q \in rows : q.time <= r.time}

\* "ORDER BY ASC LIMIT 1" (and Values[0] of an unordered query): a row of the smallest
\* time; rows of several series with that time are all possible answers
OrderAscLimit1(rows) == {r \in rows : \A q \in rows : r.time <= q.time}

\* "ORDER BY DESC LIMIT 1"
OrderDescLimit1(rows) == {r \in rows : \A q \in rows : q.time <= r.time}

\* the timestamp the caller gets from the time column of a row
RowTime(r) == ParseRFC3339Nano(FormatRFC3339Nano(r.time))

\* GetStorageTreeInflux(topic, timeLower): the possible results (tree, time, err)
GetStorageTreeInflux(rows, topic, timeLower, qok) ==
    LET q == queryAuditDB({r \in Select(rows, influxDBStorageTable, [topic |-> topic]) :
                              After(r.time, timeLower)}, qok)
    IN  IF q.err # Nil THEN {[tree |-> <<>>, time |-> ZeroTime, err |-> q.err]}
        ELSE IF q.res = {} THEN {[tree |-> <<>>, time |-> ZeroTime, err |-> Nil]}
        ELSE {[tree |-> r.fields.value, time |-> RowTime(r), err |-> Nil] :
                 r \in OrderAscLimit1(q.res)}

\* GetStorageTreesInflux(topic, timeInit, timeFinal): (val, err)
GetStorageTreesInflux(rows, topic, timeInit, timeFinal, qok) ==
    LET q == queryAuditDB({r \in Select(rows, influxDBStorageTable, [topic |-> topic]) :
                              After(r.time, timeInit) /\ r.time <= timeFinal}, qok)
    IN  {[val |-> q.res, err |-> q.err]}

\* GetStorageTreeByID(topic, ID): "time=%s" takes ID as it is, a text that is not a
\* number makes a query the store rejects
GetStorageTreeByID(rows, topic, ID, qok) ==
    LET id == ParseInt(ID)
        q == queryAuditDB({r \in Select(rows, influxDBStorageTable, [topic |-> topic]) :
                              id.ok /\ r.time = id.val}, qok /\ id.ok)
    IN  IF q.err # Nil THEN {[tree |-> <<>>, err |-> q.err]}
        ELSE IF q.res = {} THEN {[tree |-> <<>>, err |-> "empty response"]}
        ELSE {[tree |-> r.fields.value, err |-> Nil] : r \in OrderAscLimit1(q.res)}

\* GetLastID(topic) called at time t: (id, err)
GetLastID(rows, topic, qok, t) ==
    LET q == queryAuditDB(Select(rows, influxDBStorageTable, [topic |-> topic]), qok)
    IN  IF q.err # Nil THEN {[val |-> <<"0">>, err |-> q.err]}
        ELSE IF q.res = {} THEN {[val |-> FormatInt(t), err |-> Nil]}
        ELSE {[val |-> FormatInt(RowTime(r)), err |-> Nil] : r \in OrderDescLimit1(q.res)}

\* GetDailyTreeInflux(topic, level, timeLower): (tree, id, time, err)
GetDailyTreeInflux(rows, topic, level, timeLower, qok) ==
    LET q == queryAuditDB({r \in Select(rows, influxDBMerkleTable,
                                        [topic |-> topic, level |-> level]) :
                              After(r.time, timeLower)}, qok)
    IN  IF q.err # Nil THEN {[tree |-> <<>>, id |-> 0, time |-> ZeroTime, err |-> q.err]}
        ELSE IF q.res = {} THEN {[tree |-> <<>>, id |-> 0, time |-> ZeroTime, err |-> Nil]}
        ELSE {[tree |-> r.fields.value, id |-> ParseInt(r.tags.id).val,
               time |-> RowTime(r), err |-> Nil] : r \in OrderAscLimit1(q.res)}

\* GetDailyTreesInflux(topic, level, timeInit, timeFinal): (val, err)
GetDailyTreesInflux(rows, topic, level, timeInit, timeFinal, qok) ==
    LET q == queryAuditDB({r \in Select(rows, influxDBMerkleTable,
                                        [topic |-> topic, level |-> level]) :
                              After(r.time, timeInit) /\ r.time <= timeFinal}, qok)
    IN  {[val |-> q.res, err |-> q.err]}

\* GetDailyTreeByID(topic, level, ID): (tree, err); no series: the named results as
\* they are, an empty tree and the nil error of the query
GetDailyTreeByID(rows, topic, level, ID, qok) ==
    LET q == queryAuditDB(Select(rows, influxDBMerkleTable,
                                 [topic |-> topic, level |-> level, id |-> FormatInt(ID)]),
                          qok)
    IN  IF q.err # Nil THEN {[tree |-> <<>>, err |-> q.err]}
        ELSE IF q.res = {} THEN {[tree |-> <<>>, err |-> q.err]}
        ELSE {[tree |-> r.fields.value, err |-> Nil] : r \in OrderAscLimit1(q.res)}

\* GetLastTimestamp(topic, level) called at time t: (time, err)
GetLastTimestamp(rows, topic, level, qok, t) ==
    LET q == queryAuditDB(Select(rows, influxDBMerkleTable,
                                 [topic |-> topic, level |-> level]), qok)
    IN  IF q.err # Nil THEN {[val |-> ZeroTime, err |-> q.err]}
        ELSE IF q.res = {} THEN {[val |-> AddDate(t, 0 - LookbackDays), err |-> Nil]}
        ELSE {LET i == ParseInt(r.fields.lastTimestamp)
              IN  IF i.ok THEN [val |-> i.val, err |-> Nil]
                  ELSE [val |-> ZeroTime, err |-> "parse"] : r \in OrderDescLimit1(q.res)}

\* GetLastIDMerkle(topic, level): (id, err)
GetLastIDMerkle(rows, topic, level, qok) ==
    LET q == queryAuditDB(Select(rows, influxDBMerkleTable,
                                 [topic |-> topic, level |-> level]), qok)
    IN  IF q.err # Nil THEN {[val |-> 0, err |-> q.err]}
        ELSE IF q.res = {} THEN {[val |-> -1, err |-> Nil]}
        ELSE {LET i == ParseInt(r.tags.id)
              IN  [val |-> i.val, err |-> IF i.ok THEN Nil ELSE "parse"] :
                 r \in OrderDescLimit1(q.res)}

\* utils.MaxIntSlice
MaxIntSlice(s) == CHOOSE m \in Range(s) : \A x \in Range(s) : x <= m

\* GetYoungestChildMerkle(topic): (id, err)
GetYoungestChildMerkle(rows, topic, qok) ==
    LET q == queryAuditDB(Select(rows, influxDBMerkleTable,
                                 [topic |-> topic, level |-> "2"]), qok)
    IN  IF q.err # Nil THEN {[val |-> 0, err |-> q.err]}
        ELSE IF q.res = {} THEN {[val |-> 0, err |-> Nil]}
        ELSE {LET cs == r.fields.children
                  children == [i \in 1..Len(cs) |-> ParseInt(cs[i])]
              IN  IF \E i \in 1..Len(cs) : ~children[i].ok \/ cs = <<>>
                  THEN [val |-> 0, err |-> "children"]
                  ELSE [val |-> MaxIntSlice([i \in 1..Len(cs) |-> children[i].val]),
                        err |-> Nil] : r \in OrderDescLimit1(q.res)}

\* merkletree.DataInStorageTree(data, tree): some bucket of the tree holds data
DataInStorageTree(data, tree) == \E i \in 1..Len(tree) : tree[i].data = data

\* FindStorageTree(data, timeData, topic): (id, err)
FindStorageTree(rows, data, timeData, topic, qok) ==
    {IF g.err # Nil THEN [val |-> <<>>, err |-> g.err]
     ELSE IF DataInStorageTree(data, g.tree) THEN [val |-> TimeString(g.time), err |-> Nil]
     ELSE [val |-> <<>>, err |-> Nil] :
        g \in GetStorageTreeInflux(rows, topic, timeData, qok)}

\* ------------------------------------------------------------------ actions
Init ==
    /\ influx = {}
    /\ redis = {}
    /\ influxBatchPoints = createAuditBatchInflux
    /\ influxPointsInBatch = 0
    /\ now = 1
    /\ seen = [p \in Writers |-> 0]
    /\ pc = [p \in Writers |-> "idle"]
    /\ call = [p \in Writers |-> NoCall]
    /\ err = [p \in Writers |-> Nil]
    /\ ret = [p \in Writers |-> "none"]
    /\ ncalls = 0
    /\ accepted = EmptyBag
    /\ everFailed = FALSE
    /\ rd = NoRead

\* the clock advances
Tick ==
    /\ rd' = NoRead
    /\ now < MaxTime
    /\ now' = now + 1
    /\ UNCHANGED <<influx, redis, influxBatchPoints, influxPointsInBatch, seen, pc, call, err,
                   ret, ncalls, accepted, everFailed>>

\* time.Now() in a tree write of caller p: a call blocks on its write to influx, so the
\* next call of the same caller reads a later time; concurrent callers may read the same
ReadClock(p) ==
    /\ now > seen[p]
    /\ seen' = [seen EXCEPT ![p] = now]

\* the record of a call in progress
\* poolErr is the error SetPoolID returned (dropped by SetDailyTreeInflux), rejected
\* tells that a write of this call was rejected, lost names the caller whose failed
\* write discarded the batch holding this call's point
CallRec(kind, uid, topic, level, ID, children, pt, poolErr) ==
    [kind |-> kind, uid |-> uid, topic |-> topic, level |-> level, ID |-> ID,
     children |-> children, pt |-> pt, poolErr |-> poolErr, rejected |-> FALSE,
     lost |-> "none"]

\* addAuditPoint up to the threshold test; the forced write is the caller's next step
addAuditPoint(p, pt) ==
    /\ influxBatchPoints' = Append(influxBatchPoints, pt)
    /\ influxPointsInBatch' = influxPointsInBatch + 1
    /\ pc' = [pc EXCEPT ![p] =
                IF influxPointsInBatch + 1 >= influxMaxPointsInBatch THEN "force" ELSE "flush"]

\* NewPoint failed: the error is logged and the call goes on to its final write
skipAuditPoint(p) ==
    /\ pc' = [pc EXCEPT ![p] = "flush"]
    /\ UNCHANGED <<influxBatchPoints, influxPointsInBatch>>

\* SetStorageTreeInflux from its entry up to its first influxClient.Write
SetStorageTreeInflux(p, in) ==
    /\ rd' = NoRead
    /\ pc[p] = "idle"
    /\ ncalls < MaxCalls
    /\ ReadClock(p)
    /\ \E tree \in in.trees, topic \in in.topics :
         LET uid == ncalls + 1
             pt == IF tree # <<>> /\ NewPointOK(topic)
                   THEN StoragePoint(uid, tree, topic, now) ELSE NoPoint
         IN  /\ ncalls' = uid
             /\ call' = [call EXCEPT ![p] = CallRec("storage", uid, topic, "", 0, <<>>, pt, "none")]
             /\ IF tree = <<>>
                THEN \* merkletree.NewTree rejects an empty leaf set: return err
                     /\ pc' = [pc EXCEPT ![p] = "idle"]
                     /\ ret' = [ret EXCEPT ![p] = "NewTree"]
                     /\ UNCHANGED <<influxBatchPoints, influxPointsInBatch>>
                ELSE /\ ret' = [ret EXCEPT ![p] = "none"]
                     /\ IF pt # NoPoint THEN addAuditPoint(p, pt) ELSE skipAuditPoint(p)
    /\ UNCHANGED <<influx, redis, now, err, accepted, everFailed>>

\* SetDailyTreeInflux from its entry up to its first influxClient.Write
SetDailyTreeInflux(p, in) ==
    /\ rd' = NoRead
    /\ pc[p] = "idle"
    /\ ncalls < MaxCalls
    /\ ReadClock(p)
    /\ \E ID \in in.ids, topic \in in.topics, level \in in.levels, children \in in.children,
          redisOK \in in.oks :
         LET uid == ncalls + 1
             pt == IF NewPointOK(topic)
                   THEN DailyPoint(uid, ID, topic, level, children, now, now) ELSE NoPoint
         IN  /\ level # "2" => redisOK
             /\ ncalls' = uid
             /\ redis' = IF level = "2" THEN SetPoolID(redis, topic, children, ID, redisOK)
                         ELSE redis
             /\ call' = [call EXCEPT ![p] =
                           CallRec("daily", uid, topic, level, ID, children, pt,
                                   IF level # "2" THEN "none"
                                   ELSE IF redisOK /\ children # <<>> THEN Nil ELSE "redis")]
             /\ ret' = [ret EXCEPT ![p] = "none"]
             /\ IF pt # NoPoint THEN addAuditPoint(p, pt) ELSE skipAuditPoint(p)
    /\ UNCHANGED <<influx, now, err, accepted, everFailed>>

\* FlushAuditBatch: the batch is never nil once the store is constructed with influx
FlushAuditBatch(p) ==
    /\ rd' = NoRead
    /\ pc[p] = "idle"
    /\ ncalls < MaxCalls
    /\ ncalls' = ncalls + 1
    /\ call' = [call EXCEPT ![p] = CallRec("flush", ncalls + 1, "", "", 0, <<>>, NoPoint, "none")]
    /\ ret' = [ret EXCEPT ![p] = "none"]
    /\ pc' = [pc EXCEPT ![p] = "flush"]
    /\ UNCHANGED <<influx, redis, influxBatchPoints, influxPointsInBatch, now, seen, err,
                   accepted, everFailed>>

Uids(batch) == {batch[i].uid : i \in 1..Len(batch)}

\* WriteAuditBatchInflux, first half: influxClient.Write(db.influxBatchPoints) sends the
\* points of the batch and the store accepts or rejects the write
WriteSend(p, in) ==
    /\ rd' = NoRead
    /\ pc[p] \in {"force", "flush"}
    /\ \E ok \in in.oks :
         /\ err' = [err EXCEPT ![p] = IF ok THEN Nil ELSE "write"]
         /\ influx' = IF ok THEN WritePoints(influx, influxBatchPoints) ELSE influx
         /\ accepted' = IF ok THEN accepted (+) SetToBag(Range(influxBatchPoints))
                        ELSE accepted
         /\ call' = [call EXCEPT ![p].rejected = @ \/ ~ok]
         /\ everFailed' = (everFailed \/ ~ok)
    /\ pc' = [pc EXCEPT ![p] = IF pc[p] = "force" THEN "forced" ELSE "flushed"]
    /\ UNCHANGED <<redis, influxBatchPoints, influxPointsInBatch, now, seen, ret, ncalls>>

\* WriteAuditBatchInflux, second half: on an error the batch is replaced by a new one,
\* otherwise the counter is reset; the forced write of addAuditPoint drops the error,
\* the final write of a call returns it
WriteDone(p) ==
    /\ rd' = NoRead
    /\ pc[p] \in {"forced", "flushed"}
    /\ influxBatchPoints' = BatchAfterWrite(influxBatchPoints, err[p])
    /\ influxPointsInBatch' = CounterAfterWrite(influxPointsInBatch, err[p])
    /\ call' = [q \in Writers |->
                  IF /\ pc[q] # "idle"
                     /\ err[p] # Nil
                     /\ call[q].uid \in Uids(influxBatchPoints)
                     /\ call[q].uid \notin Uids(influxBatchPoints')
                  THEN [call[q] EXCEPT !.lost = p] ELSE call[q]]
    /\ IF pc[p] = "forced"
       THEN /\ pc' = [pc EXCEPT ![p] = "flush"]
            /\ UNCHANGED ret
       ELSE /\ pc' = [pc EXCEPT ![p] = "idle"]
            /\ ret' = [ret EXCEPT ![p] = err[p]]
    /\ UNCHANGED <<influx, redis, now, seen, err, ncalls, accepted, everFailed>>

Step(p, in) ==
    \/ SetStorageTreeInflux(p, in)
    \/ SetDailyTreeInflux(p, in)
    \/ FlushAuditBatch(p)
    \/ WriteSend(p, in)
    \/ WriteDone(p)

\* callers run concurrently on one DBAudit
Next ==
    \/ Tick
    \/ \E p \in Writers : Step(p, RaceInputs)

Spec == Init /\ [][Next]_vars

\* one caller at a time
NextSingle ==
    \/ Tick
    \/ Step("w1", AllInputs)

SpecSingle == Init /\ [][NextSingle]_vars

\* ------------------------------------------------------------------ reads
ReadTimes == 0..MaxTime
Payloads == {"p", "q", "z"}

Req(op, topic, level, t, t2, id, sid, data) ==
    [op |-> op, topic |-> topic, level |-> level, t |-> t, t2 |-> t2, id |-> id,
     sid |-> sid, data |-> data, qok |-> TRUE]

\* the read operations of AuditStore with their arguments
OkRequests ==
    {Req("GetStorageTreeInflux", tp, "", t, 0, 0, <<>>, "") : tp \in ReadTopics, t \in ReadTimes}
    \cup {Req("GetStorageTreesInflux", tp, "", 0, MaxTime, 0, <<>>, "") : tp \in ReadTopics}
    \cup {Req("GetStorageTreeByID", tp, "", 0, 0, 0, FormatInt(t), "") :
              tp \in ReadTopics, t \in 1..MaxTime}
    \cup {Req("GetLastID", tp, "", 0, 0, 0, <<>>, "") : tp \in ReadTopics}
    \cup {Req("GetDailyTreeInflux", tp, l, t, 0, 0, <<>>, "") :
              tp \in ReadTopics, l \in {"1", "2"}, t \in ReadTimes}
    \cup {Req("GetDailyTreesInflux", tp, l, 0, MaxTime, 0, <<>>, "") :
              tp \in ReadTopics, l \in {"1", "2"}}
    \cup {Req("GetDailyTreeByID", tp, l, 0, 0, i, <<>>, "") :
              tp \in ReadTopics, l \in {"1", "2"}, i \in IDs}
    \cup {Req("GetLastTimestamp", tp, l, 0, 0, 0, <<>>, "") : tp \in ReadTopics, l \in {"1", "2"}}
    \cup {Req("GetLastIDMerkle", tp, l, 0, 0, 0, <<>>, "") : tp \in ReadTopics, l \in {"1", "2"}}
    \cup {Req("GetYoungestChildMerkle", tp, "", 0, 0, 0, <<>>, "") : tp \in ReadTopics}
    \cup {Req("FindStorageTree", tp, "", t, 0, 0, <<>>, d) :
              tp \in ReadTopics, t \in ReadTimes, d \in Payloads}
    \cup {Req("GetPoolsParentID", tp, "", 0, 0, 0, c, "") :
              tp \in ReadTopics, c \in {ChildA, <<"9">>}}

\* the same operations while the time-series store rejects the query; a rejected query
\* is answered before its time bound or the payload is looked at
FailRequests ==
    {[r EXCEPT !.qok = FALSE] :
        r \in {q \in OkRequests : q.op # "GetPoolsParentID" /\ q.t = 0 /\ q.data \in {"", "p"}}}

\* what a read operation may return in the current state
Answer(r) ==
    CASE r.op = "GetStorageTreeInflux" -> GetStorageTreeInflux(influx, r.topic, r.t, r.qok)
      [] r.op = "GetStorageTreesInflux" ->
            GetStorageTreesInflux(influx, r.topic, r.t, r.t2, r.qok)
      [] r.op = "GetStorageTreeByID" -> GetStorageTreeByID(influx, r.topic, r.sid, r.qok)
      [] r.op = "GetLastID" -> GetLastID(influx, r.topic, r.qok, now)
      [] r.op = "GetDailyTreeInflux" ->
            GetDailyTreeInflux(influx, r.topic, r.level, r.t, r.qok)
      [] r.op = "GetDailyTreesInflux" ->
            GetDailyTreesInflux(influx, r.topic, r.level, r.t, r.t2, r.qok)
      [] r.op = "GetDailyTreeByID" -> GetDailyTreeByID(influx, r.topic, r.level, r.id, r.qok)
      [] r.op = "GetLastTimestamp" -> GetLastTimestamp(influx, r.topic, r.level, r.qok, now)
      [] r.op = "GetLastIDMerkle" -> GetLastIDMerkle(influx, r.topic, r.level, r.qok)
      [] r.op = "GetYoungestChildMerkle" -> GetYoungestChildMerkle(influx, r.topic, r.qok)
      [] r.op = "FindStorageTree" -> FindStorageTree(influx, r.data, r.t, r.topic, r.qok)
      [] r.op = "GetPoolsParentID" -> {GetPoolsParentID(redis, r.sid, r.topic)}

\* a read operation between two calls of the caller; reads change nothing, so the
\* answers to several reads in a row are the answers to each of them alone
Read ==
    /\ \A p \in Writers : pc[p] = "idle"
    /\ rd = NoRead
    /\ \E r \in OkRequests \cup FailRequests :
         \E res \in Answer(r) : rd' = [op |-> r.op, req |-> r, res |-> res]
    /\ UNCHANGED <<influx, redis, influxBatchPoints, influxPointsInBatch, now, seen, pc, call,
                   err, ret, ncalls, accepted, everFailed>>

\* one caller that writes and reads
NextRead ==
    \/ Tick
    \/ Step("w1", ReadInputs)
    \/ Read

SpecRead == Init /\ [][NextRead]_vars

\* ------------------------------------------------------------------ properties
Quiescent == \A p \in Writers : pc[p] = "idle"
\* the last call of p has returned
Returned(p) == pc[p] = "idle" /\ call[p].kind # "none"
TreeWrite(p) == call[p].kind \in {"storage", "daily"}
Parent(ID) == [val |-> ID, err |-> Nil]
Copies(pt) == CopiesIn(pt, accepted)
Delivered(pt) == pt # NoPoint /\ Copies(pt) > 0

\* C1: a level-2 SetDailyTreeInflux that returned nil has every child mapped to its ID
\* in the pool index, whatever the outcome of SetPoolID and of the write
C1_ReturnedNilImpliesIndexed ==
    \A p \in Writers :
        (Returned(p) /\ call[p].kind = "daily" /\ call[p].level = "2" /\ ret[p] = Nil)
            => \A c \in Range(call[p].children) :
                   GetPoolsParentID(redis, c, call[p].topic) = Parent(call[p].ID)

\* C2: a tree write returns nil only if its record was part of a write that the store
\* accepted
C2_NilOnlyIfDurable ==
    \A p \in Writers :
        (Returned(p) /\ TreeWrite(p) /\ ret[p] = Nil) => Delivered(call[p].pt)

\* a step of caller p that ends a WriteAuditBatchInflux whose write was rejected
FailedFlushEnds(p) == pc[p] \in {"forced", "flushed"} /\ pc'[p] # pc[p] /\ err[p] # Nil
\* a step of caller p that ends a WriteAuditBatchInflux whose write was accepted
GoodFlushEnds(p) == pc[p] \in {"forced", "flushed"} /\ pc'[p] # pc[p] /\ err[p] = Nil

C3_FailedFlushLeavesEmptyBatch ==
    \A p \in Writers : FailedFlushEnds(p) => influxBatchPoints' = <<>>

C3_AcceptedWriteReturnsNil ==
    \A p \in Writers :
        (Returned(p) /\ ret[p] # "NewTree" /\ ~call[p].rejected)
            => /\ ret[p] = Nil
               /\ call[p].pt # NoPoint => Delivered(call[p].pt)

\* C3: a failed flush leaves a new empty batch, and a later tree write whose writes the
\* store accepts returns nil with its point delivered, whatever failed before
C3_WriterNotStuck ==
    [][C3_FailedFlushLeavesEmptyBatch]_vars /\ []C3_AcceptedWriteReturnsNil

C3_Witness ==
    \E p \in Writers :
        /\ Returned(p) /\ TreeWrite(p) /\ everFailed /\ ~call[p].rejected
        /\ ret[p] = Nil /\ Delivered(call[p].pt)

\* the topics whose redis key is k
TopicsOfKey(k) == {t \in Topics : getKeyPoolIDs(t) = k}

\* the index entry e is backed by a level-2 row of the merkle table
Derivable(e) ==
    \E r \in influx :
        /\ r.table = influxDBMerkleTable
        /\ r.tags.level = "2"
        /\ r.tags.topic \in TopicsOfKey(e.key)
        /\ ParseInt(r.tags.id) = ParseInt(e.val)
        /\ e.field \in Range(r.fields.children)

\* C4: with no call in progress, every pool index entry is backed by a durable level-2
\* Daily Tree record of its topic and parent that lists the child
C4_IndexDerivable == Quiescent => \A e \in redis : Derivable(e)

Level2Rows == {r \in influx : r.table = influxDBMerkleTable /\ r.tags.level = "2"}

\* SetPoolID replayed over a sequence of level-2 rows, from the index r
RECURSIVE Replay(_, _)
Replay(r, rows) ==
    IF rows = <<>> THEN r
    ELSE Replay(SetPoolID(r, Head(rows).tags.topic, Head(rows).fields.children,
                          ParseInt(Head(rows).tags.id).val, TRUE),
                Tail(rows))

\* every order of the rows, and every order with one row replayed twice
ReplayOrders(rows) ==
    {s \in UNION {[1..n -> rows] : n \in Cardinality(rows)..(Cardinality(rows) + 1)} :
        Range(s) = rows}

\* C5: with no call in progress, replaying the durable level-2 records in any order,
\* repeats included, rebuilds exactly the pool index the incremental updates produced
C5_RebuildEqualsIncremental ==
    Quiescent => \A s \in ReplayOrders(Level2Rows) : Replay({}, s) = redis

\* a step in which caller p enters SetDailyTreeInflux at level 2
PoolStep(p) == pc[p] = "idle" /\ pc'[p] # "idle" /\ call'[p].kind = "daily" /\ call'[p].level = "2"

C6_Step ==
    /\ \A p \in Writers :
         (PoolStep(p) /\ call'[p].poolErr = Nil) =>
             \A c \in Range(call'[p].children) :
                 /\ GetPoolsParentID(redis', c, call'[p].topic) = Parent(call'[p].ID)
                 /\ \A t2 \in Topics \ {call'[p].topic} :
                      /\ GetPoolsParentID(redis', c, t2) = GetPoolsParentID(redis, c, t2)
                      /\ (\A e \in redis : ~(e.key = getKeyPoolIDs(t2) /\ e.field = c))
                            => GetPoolsParentID(redis', c, t2).err # Nil
    /\ (\A p \in Writers : ~PoolStep(p)) => redis' = redis

\* C6: after a successful SetPoolID(T, C, ID) every child of C looks up to ID under T,
\* the lookups under another topic are untouched (an error where that topic never
\* recorded the child), and the entries stay until the next SetPoolID
C6_LookupAfterSetPoolID == [][C6_Step]_vars

C6_Witness ==
    \E p \in Writers :
        /\ call[p].kind = "daily" /\ call[p].level = "2"
        /\ call[p].poolErr = Nil /\ Len(call[p].children) = 2
        /\ \A c \in Range(call[p].children) :
             /\ GetPoolsParentID(redis, c, call[p].topic) = Parent(call[p].ID)
             /\ \E t2 \in Topics : GetPoolsParentID(redis, c, t2).err # Nil

StoragePoints == {pt \in BagToSet(accepted) : pt.table = influxDBStorageTable}

\* C7: the records of two different Storage Trees of one topic written at the same build
\* time differ in their (firstDate, lastDate) tags
C7_SameTimeTreesDifferInTags ==
    \A a, b \in StoragePoints :
        (a.fields # b.fields /\ a.tags.topic = b.tags.topic /\ a.time = b.time)
            => <<a.tags.firstDate, a.tags.lastDate>> # <<b.tags.firstDate, b.tags.lastDate>>

\* C8: the only way a caller returns nil from a tree write whose appended point never
\* reached the store is that a failed flush replaced the batch holding the point
C8_LossOnlyByBatchReplacement ==
    \A p \in Writers :
        (/\ Returned(p) /\ TreeWrite(p) /\ ret[p] = Nil
         /\ call[p].pt # NoPoint /\ ~Delivered(call[p].pt))
            => call[p].lost # "none"

\* a point appended by p was discarded by the failed flush of another caller, and p's
\* own flush returned nil
C8_Witness ==
    \E p \in Writers :
        /\ Returned(p) /\ TreeWrite(p) /\ ret[p] = Nil
        /\ call[p].pt # NoPoint /\ ~Delivered(call[p].pt)
        /\ call[p].lost \in Writers \ {p}
        /\ ~call[p].rejected

\* C9: no point is carried by more than one write that the store accepted
C9_AtMostOnce == \A pt \in BagToSet(accepted) : Copies(pt) <= 1

C10_Step ==
    \A p \in Writers :
        (GoodFlushEnds(p) \/ FailedFlushEnds(p)) => influxBatchPoints' = <<>>

\* C10: after every flush, successful or failed, the current batch holds no points
C10_BatchEmptyAfterFlush == [][C10_Step]_vars

\* ------------------------------------------------------------------ properties of reads
\* the storage trees of a topic built after t, and the merkle trees of a topic and level
StorageAfter(topic, t) ==
    {r \in influx : r.table = influxDBStorageTable /\ r.tags.topic = topic /\ r.time > t}
DailyAfter(topic, level, t) ==
    {r \in influx : /\ r.table = influxDBMerkleTable /\ r.tags.topic = topic
                    /\ r.tags.level = level /\ r.time > t}
Earliest(rows) == {r \in rows : \A q \in rows : r.time <= q.time}
Holds(r, data) == \E i \in 1..Len(r.fields.value) : r.fields.value[i].data = data

C12_FoundIdIsBuildTimeKey ==
    (rd.op = "FindStorageTree" /\ rd.res.err = Nil /\ rd.res.val # <<>>) =>
        \E c \in Earliest(StorageAfter(rd.req.topic, rd.req.t)) :
            /\ rd.res.val = FormatInt(c.time)
            /\ \A i \in 1..Len(c.fields.value) :
                 SubSeq(c.fields.value[i].ID, 1, Len(rd.res.val) + 1) = rd.res.val \o <<".">>
            /\ GetStorageTreeByID(influx, rd.req.topic, rd.res.val, TRUE)
                   = {[tree |-> c.fields.value, err |-> Nil]}

\* C13: GetStorageTreeInflux and GetDailyTreeInflux return the record of the smallest
\* time among the matching records later than t, and the empty result with a nil error
\* when there is none
C13_EarliestAfter ==
    /\ (rd.op = "GetStorageTreeInflux" /\ rd.req.qok) =>
          LET m == StorageAfter(rd.req.topic, rd.req.t)
          IN  IF m = {} THEN rd.res = [tree |-> <<>>, time |-> ZeroTime, err |-> Nil]
              ELSE \E c \in Earliest(m) :
                      rd.res = [tree |-> c.fields.value, time |-> c.time, err |-> Nil]
    /\ (rd.op = "GetDailyTreeInflux" /\ rd.req.qok) =>
          LET m == DailyAfter(rd.req.topic, rd.req.level, rd.req.t)
          IN  IF m = {}
              THEN rd.res = [tree |-> <<>>, id |-> 0, time |-> ZeroTime, err |-> Nil]
              ELSE \E c \in Earliest(m) :
                      /\ rd.res.tree = c.fields.value /\ rd.res.time = c.time
                      /\ FormatInt(rd.res.id) = c.tags.id /\ rd.res.err = Nil

\* t is the time of the latest record of the topic: the result is empty
C13_Witness ==
    /\ rd.op = "GetStorageTreeInflux" /\ rd.req.qok
    /\ StorageAfter(rd.req.topic, 0) # {}
    /\ \A r \in StorageAfter(rd.req.topic, 0) : r.time <= rd.req.t
    /\ \E r \in StorageAfter(rd.req.topic, 0) : r.time = rd.req.t
    /\ rd.res = [tree |-> <<>>, time |-> ZeroTime, err |-> Nil]

LatestOps == {"GetLastID", "GetLastIDMerkle", "GetLastTimestamp"}
EmptyStoreRead == influx = {} /\ rd.op \in LatestOps /\ rd.req.qok

NeverStored ==
    CASE rd.op = "GetStorageTreeByID" ->
            \A r \in StorageAfter(rd.req.topic, ZeroTime) : FormatInt(r.time) # rd.req.sid
      [] rd.op = "GetDailyTreeByID" ->
            \A r \in DailyAfter(rd.req.topic, rd.req.level, ZeroTime) :
                r.tags.id # FormatInt(rd.req.id)
      [] rd.op = "GetPoolsParentID" ->
            \A e \in redis : ~(e.key = getKeyPoolIDs(rd.req.topic) /\ e.field = rd.req.sid)

\* C15: a lookup by exact key that matches nothing returns a non-nil error
C15_MissingKeyIsError ==
    (/\ rd.op \in {"GetStorageTreeByID", "GetDailyTreeByID", "GetPoolsParentID"}
     /\ rd.req.qok /\ NeverStored)
        => rd.res.err # Nil

\* C16: a read operation whose query the time-series store rejects returns a non-nil
\* error
C16_RejectedReadIsError == (rd.op # "none" /\ ~rd.req.qok) => rd.res.err # Nil

\* the rejected query of an operation that answers an empty store with a sentinel
C16_Witness ==
    /\ rd.op = "GetLastID" /\ ~rd.req.qok /\ influx = {}
    /\ rd.res.err # Nil /\ rd.res.val # FormatInt(now)

\* ------------------------------------------------------------------ properties of trees
StorageRows == {r \in influx : r.table = influxDBStorageTable}
MerkleRows == {r \in influx : r.table = influxDBMerkleTable}
Dots(id) == {k \in 1..Len(id) : id[k] = "."}
Before(id) == SubSeq(id, 1, (CHOOSE k \in Dots(id) : TRUE) - 1)
Behind(id) == SubSeq(id, (CHOOSE k \in Dots(id) : TRUE) + 1, Len(id))

\* C17: the leaf at position i of a stored storage tree has the identifier
\* "<buildTime>.<i>": the prefix is the time key of the record, the suffixes count from
\* 0 in leaf order, and no two leaves of a tree share an identifier
C17_LeafIdentifiers ==
    \A r \in StorageRows :
        LET v == r.fields.value
        IN  /\ \A i \in 1..Len(v) :
                 /\ Cardinality(Dots(v[i].ID)) = 1
                 /\ ParseInt(Before(v[i].ID)) = [ok |-> TRUE, val |-> r.time]
                 /\ ParseInt(Behind(v[i].ID)) = [ok |-> TRUE, val |-> i - 1]
            /\ \A i, j \in 1..Len(v) : i # j => v[i].ID # v[j].ID

C17_Witness ==
    \E r \in StorageRows : Len(r.fields.value) = 2 /\ r.time = 2

Min(S) == CHOOSE m \in S : \A x \in S : m <= x
Max(S) == CHOOSE m \in S : \A x \in S : x <= m
Timestamps(r) == {r.fields.value[i].Timestamp : i \in 1..Len(r.fields.value)}

\* C18: the firstDate tag of a stored storage tree is its smallest leaf timestamp and
\* the lastDate tag its largest
C18_DateTagsAreMinMax ==
    \A r \in StorageRows :
        /\ r.tags.firstDate = FormatInt(Min(Timestamps(r)))
        /\ r.tags.lastDate = FormatInt(Max(Timestamps(r)))

\* C19: after successful SetDailyTreeInflux calls no child identifier is listed by the
\* records of two parents of one level and topic
C19_ChildHasOneParent ==
    ((\A p \in Writers : pc[p] = "idle") /\ ~everFailed) =>
        \A a, b \in MerkleRows :
            (/\ a.tags.level = b.tags.level /\ a.tags.topic = b.tags.topic
             /\ Range(a.fields.children) \cap Range(b.fields.children) # {})
                => a.tags.id = b.tags.id

\* a step in which caller p enters SetDailyTreeInflux
DailyStep(p) == pc[p] = "idle" /\ pc'[p] # "idle" /\ call'[p].kind = "daily"

C20_Step ==
    /\ \A p \in Writers :
         DailyStep(p) =>
             /\ call'[p].level # "2" => redis' = redis
             /\ \A e \in (redis' \ redis) \cup (redis \ redis') :
                  /\ e.key = getKeyPoolIDs(call'[p].topic)
                  /\ e.field \in Range(call'[p].children)
    /\ (\A p \in Writers : ~DailyStep(p)) => redis' = redis

\* C20: SetDailyTreeInflux with a level other than "2" leaves the pool index as it is,
\* whatever the write to influx does afterwards; a level-2 call changes entries only
\* under its own topic and only for its own children
C20_OnlyLevel2WritesIndex == [][C20_Step]_vars

\* a level-0 call has failed and has left the entries of an earlier level-2 call alone
C20_Witness ==
    \E p \in Writers :
        /\ call[p].kind = "daily" /\ call[p].level = "0" /\ pc[p] = "idle"
        /\ ret[p] \notin {Nil, "none"}
        /\ redis # {}

\* the children, as numbers, of all level-2 records of a topic
PooledChildren(topic) ==
    UNION {{ParseInt(c).val : c \in Range(r.fields.children)} :
              r \in DailyAfter(topic, "2", ZeroTime)}

\* C21: GetYoungestChildMerkle(topic) returns the highest child identifier among the
\* children of all level-2 records of the topic, and 0 with a nil error when the topic
\* has no level-2 record
C21_YoungestChildIsMaxOfAll ==
    (rd.op = "GetYoungestChildMerkle" /\ rd.req.qok) =>
        IF DailyAfter(rd.req.topic, "2", ZeroTime) = {}
        THEN rd.res = [val |-> 0, err |-> Nil]
        ELSE rd.res = [val |-> Max(PooledChildren(rd.req.topic)), err |-> Nil]

\* addAuditPoint has returned in the tree write of caller p
AddReturned(p) == pc[p] = "flush" /\ TreeWrite(p) /\ call[p].pt # NoPoint

\* C22: influxPointsInBatch is the number of points in influxBatchPoints, and it is
\* below influxMaxPointsInBatch whenever addAuditPoint has returned
C22_CounterIsBatchSize ==
    /\ influxPointsInBatch = Len(influxBatchPoints)
    /\ \A p \in Writers : AddReturned(p) => influxPointsInBatch < influxMaxPointsInBatch
====
